---- MODULE Spec2Model ----
(***************************************************************************)
(* State-machine model of src/main.cpp: the Scene class (initialize, run,  *)
(* shutdown, implicit destructor), the outer driver main(), and the two    *)
(* external collaborators as far as the code's calls depend on them: the   *)
(* windowing layer (GLFW) and the graphics device, which executes queued   *)
(* work asynchronously to the host thread.                                 *)
(***************************************************************************)
EXTENDS Integers, Sequences, FiniteSets, TLC

VARIABLES
    pc,            \* position of the host thread in main() (or "client")
    device_lost,   \* main()'s local flag
    return_value,  \* main()'s local
    exit_code,     \* process exit code, -1 while running
    console,       \* status lines written so far
    calls,         \* sequence of <<object, method>>: public Scene calls begun
    scene,         \* the Scene objects, by object id
    glfw,          \* windowing layer: inited, live windows, handle counter, args of glfwDestroyWindow
    gpu,           \* logical device: queue of pending operations, fences, semaphores, images
    run            \* locals of Scene::run(): position, image_index, frame count

vars == <<pc, device_lost, return_value, exit_code, console, calls, scene, glfw, gpu, run>>

----------------------------------------------------------------------------
(* Program constants *)

m_width == 1280
m_height == 720
m_sw_num_images == 2

(* Bounds of the model *)

\* how many images beyond the requested minimum the implementation may create
MaxExtraImages == 1
\* frames Scene::run() may start before the window is closed
MaxFrames == 3
\* consecutive shutdown() calls a client of Scene makes
MaxShutdownCalls == 2

MaxImages == m_sw_num_images + MaxExtraImages

\* nullptr, and an indeterminate (never written) pointer member
Null == 0
Indet == -1
\* result of reading a vector element out of range that is no live handle
Invalid == -1

\* extents the surface may report as its current extent
Extents == {<<1280, 720>>, <<1280, 600>>, <<1024, 720>>, <<1024, 600>>}

\* the Scene of the first lifecycle (line 565)
FirstScene == 1
\* the object the re-initialization works on: a second Scene (line 587), as
\* opposed to the first one used again
ReinitSceneSame == FirstScene
ReinitScene == 2
Objects == {1, 2}

----------------------------------------------------------------------------
(* Sequences *)

RECURSIVE Reverse(_)
Reverse(s) == IF s = <<>> THEN <<>> ELSE Append(Reverse(Tail(s)), Head(s))

RECURSIVE Filter(_, _)
\* the elements of s, in order, whose count in n is positive
Filter(s, n) ==
    IF s = <<>> THEN <<>>
    ELSE IF n[Head(s)] > 0 THEN <<Head(s)>> \o Filter(Tail(s), n)
         ELSE Filter(Tail(s), n)

Prefix(s, k) == SubSeq(s, 1, k)

Range(s) == {s[i] : i \in 1..Len(s)}

----------------------------------------------------------------------------
(* The Scene object *)

\* owned handles in member declaration order (lines 108-131)
DeclarationOrder ==
    <<"instance", "device", "surface", "swapchain", "image_views",
      "render_pass", "framebuffers", "command_pool", "command_buffers",
      "vert_shader", "frag_shader", "pipeline_layout", "pipeline",
      "fences", "present_semaphore", "draw_semaphore">>

\* members that are vectors of handles
VectorKinds == {"image_views", "framebuffers", "fences"}

\* every counted member; swapchain_imgs is a vector of non-owned images
Kinds == Range(DeclarationOrder) \cup {"swapchain_imgs"}

\* handles each step of initialize() creates, in the order it creates them
StepCreates ==
    <<  <<"window">>,                                     \* createWindowAndSurface
        <<"instance">>,                                   \* initializeVKInstance
        <<>>,                                             \* selectQueueFamilyAndPhysicalDevice
        <<"device">>,                                     \* initializeDevice
        <<"surface">>,                                    \* createSurface
        <<"swapchain", "swapchain_imgs">>,                \* createSwapChainAndImages
        <<"image_views">>,                                \* createSwapChainImageViews
        <<"render_pass">>,                                \* createPass
        <<"framebuffers">>,                               \* createFramebuffer
        <<"command_pool", "command_buffers">>,            \* allocateCommandBuffers
        <<"pipeline_layout">>,                            \* createShaderInterface
        <<"vert_shader", "frag_shader", "pipeline">>,     \* createPipeline
        <<"fences", "draw_semaphore", "present_semaphore">> >>  \* initSyncEntities

NumSteps == Len(StepCreates)

\* steps whose API calls can report the device lost (vkCreateDevice, vkCreateSwapchainKHR)
DeviceLostSteps == {4, 6}

\* a default-constructed Scene: handles null, vectors empty, m_window not initialized
FreshScene ==
    [ life |-> "alive",
      m_window |-> Indet,
      step |-> 0,
      init_result |-> "none",
      run_result |-> "none",
      n |-> [k \in Kinds |-> 0],
      created |-> <<>>,
      destroyed |-> <<>>,
      surf_extent |-> <<>>,
      waitIdle_failed |-> FALSE,
      shutdowns |-> 0 ]

NoScene == [FreshScene EXCEPT !.life = "none"]

\* the size check of createSwapChainAndImages (line 317), negated; as opposed
\* to a check of the width alone
ExtentMatchesWidthOnly(ext) == ext[1] = m_width
ExtentMatches(ext) == ext[1] = m_width /\ ext[2] = m_height

\* number of elements a step puts in a member
Target(s, kind, nimg) ==
    CASE kind = "swapchain_imgs" -> nimg
      [] kind = "image_views" -> s.n["swapchain_imgs"]
      [] kind \in {"framebuffers", "command_buffers", "fences"} -> m_sw_num_images
      [] OTHER -> 1

\* a logical device right after creation
FreshGpu ==
    [ queue |-> <<>>,
      lost |-> FALSE,
      fence |-> [i \in 0..(m_sw_num_images - 1) |-> FALSE],
      draw |-> FALSE,
      present |-> FALSE,
      img |-> [i \in 0..(MaxImages - 1) |-> "free"] ]

\* the members of s after the first k handles of kinds are created, and j
\* elements of the next one when it is a vector
CountsAfter(s, kinds, k, j, nimg) ==
    [x \in Kinds |->
        IF \E i \in 1..k : kinds[i] = x THEN Target(s, x, nimg)
        ELSE IF k < Len(kinds) /\ kinds[k + 1] = x THEN j
        ELSE s.n[x]]

IsOwnedKind(x) == x # "swapchain_imgs"

\* the creation log: owned handles in the order they came to exist
CreatedAfter(s, kinds, k, j) ==
    s.created
       \o SelectSeq(Prefix(kinds, k), IsOwnedKind)
       \o (IF k < Len(kinds) /\ j > 0 THEN <<kinds[k + 1]>> ELSE <<>>)

\* One step of Scene::initialize() on object o.
\*   out : "ok", "error" (any exception but device loss) or "device_lost"
\*   k   : handles the step created before it threw (all of them when ok)
\*   j   : elements of the vector being filled when it threw
\*   ext : the surface's current extent;  nimg : images the swap chain holds
SceneInitStep(o, out, k, j, ext, nimg) ==
    LET s == scene[o]
        st == s.step + 1
        kinds == StepCreates[st]
        winOk == st = 1 /\ out = "ok"
    IN  /\ st \in 1..NumSteps
        /\ out = "device_lost" => st \in DeviceLostSteps /\ k = 0
        /\ IF out = "ok" THEN k = Len(kinds) ELSE k < Len(kinds) \/ k = 0
        \* line 317: the size check comes before anything the step creates
        /\ (st = 6 /\ ~ExtentMatches(ext)) => out = "error" /\ k = 0
        /\ IF out # "ok" /\ k < Len(kinds) /\ kinds[k + 1] \in VectorKinds
           THEN j < Target(s, kinds[k + 1], nimg)
           ELSE j = 0
        /\ st # 6 => ext = <<m_width, m_height>>
        /\ (st # 6 \/ k < 2) => nimg = m_sw_num_images
        /\ scene' = [scene EXCEPT ![o] =
              [s EXCEPT
                 !.step = IF out = "ok" THEN st ELSE s.step,
                 !.init_result = IF out # "ok" THEN out
                                 ELSE IF st = NumSteps THEN "ok" ELSE "running",
                 \* line 219: m_window is assigned whatever glfwCreateWindow returns
                 !.m_window = IF st = 1 THEN (IF winOk THEN glfw.next ELSE Null)
                              ELSE s.m_window,
                 !.n = CountsAfter(s, kinds, k, j, nimg),
                 !.created = CreatedAfter(s, kinds, k, j),
                 !.surf_extent = IF st = 6 THEN ext ELSE s.surf_extent]]
        /\ glfw' = IF st = 1
                   THEN [glfw EXCEPT
                           !.inited = TRUE,
                           !.windows = IF winOk THEN glfw.windows \cup {glfw.next}
                                       ELSE glfw.windows,
                           !.next = IF winOk THEN glfw.next + 1 ELSE glfw.next]
                   ELSE glfw
        /\ gpu' = IF st = 4 /\ out = "ok" THEN FreshGpu
                  ELSE IF st = NumSteps /\ (k >= 1 \/ j >= 1)
                  \* fences are created signaled (line 523)
                  THEN [gpu EXCEPT !.fence =
                          [i \in 0..(m_sw_num_images - 1) |-> (k >= 1 \/ i < j)]]
                  ELSE gpu

\* the inputs of one initialize() step
InitInputs == [out : {"ok", "error", "device_lost"},
               k : 0..3, j : 0..MaxImages,
               ext : Extents, nimg : m_sw_num_images..MaxImages]

\* whether shutdown() catches a failure of waitIdle: catch (...) at line 201,
\* as opposed to no handler
ShutdownCatchMissing == FALSE
ShutdownCatchesAll == TRUE

\* a failure of waitIdle leaves shutdown() as an exception
ShutdownEscapes(w) == w = "fail" /\ ~ShutdownCatchesAll

\* Scene::shutdown() on object o.
\*   w : "skip" (no device), "ok" or "fail": the outcome of m_device->waitIdle()
\*   v : the value read from m_window
SceneShutdown(o, w, v) ==
    LET s == scene[o]
    IN  /\ IF s.n["device"] > 0
           THEN /\ w \in {"ok", "fail"}
                \* waitIdle returns once the queue is drained; a lost device fails it
                /\ w = "ok" => ~gpu.lost /\ gpu.queue = <<>>
           ELSE w = "skip"
        \* reading a member that was never written yields an arbitrary pointer
        /\ IF s.m_window = Indet THEN v \in {Null} \cup (1..glfw.next)
           ELSE v = s.m_window
        /\ IF ShutdownEscapes(w)
           THEN /\ scene' = [scene EXCEPT ![o].waitIdle_failed = TRUE,
                                           ![o].shutdowns = s.shutdowns + 1]
                /\ glfw' = glfw
           ELSE /\ scene' = [scene EXCEPT
                      ![o].waitIdle_failed = (s.waitIdle_failed \/ w = "fail"),
                      ![o].shutdowns = s.shutdowns + 1,
                      ![o].destroyed = IF v # Null /\ v \in glfw.windows
                                       THEN Append(s.destroyed, "window")
                                       ELSE s.destroyed]
                \* glfwDestroyWindow(m_window) when non-null, then glfwTerminate()
                /\ glfw' = [glfw EXCEPT
                      !.destroy_args = IF v # Null THEN Append(glfw.destroy_args, v)
                                       ELSE glfw.destroy_args,
                      !.windows = {},
                      !.inited = FALSE]

\* the implicit destructor: members are destroyed in reverse declaration order
DestructionOrder == Reverse(DeclarationOrder)

SceneDestroyed(s) ==
    [s EXCEPT !.life = "dead",
              !.destroyed = s.destroyed \o Filter(DestructionOrder, s.n),
              !.n = [k \in Kinds |-> 0]]

----------------------------------------------------------------------------
(* main() *)

\* the object the host thread is working on
Obj == IF pc \in {"s2_call_init", "s2_in_init", "s2_call_shutdown", "s2_return"}
       THEN ReinitScene ELSE FirstScene

\* the catch clauses of the first try block (lines 571-580): what the locals
\* become and what is written; as opposed to one clause taking every
\* exception for device loss
CatchFirstAllLost(exc) ==
    [device_lost |-> TRUE, return_value |-> return_value, msg |-> "Device Lost, re-init..."]
CatchFirst(exc) ==
    IF exc = "device_lost"
    THEN [device_lost |-> TRUE, return_value |-> return_value, msg |-> "Device Lost, re-init..."]
    ELSE [device_lost |-> device_lost, return_value |-> 1, msg |-> "Error Occurred"]

\* the catch clause of the re-initialization (lines 593-597): the new
\* return_value; as opposed to a clause that leaves it alone
CatchReinitKeeps(exc) == return_value
CatchReinit(exc) == 1

\* an exception leaves the first try block
ThrowFirst(exc) ==
    /\ device_lost' = CatchFirst(exc).device_lost
    /\ return_value' = CatchFirst(exc).return_value
    /\ console' = console \cup {CatchFirst(exc).msg}
    /\ pc' = "s1_call_shutdown"

\* scene.initialize() is entered (lines 568, 590)
CallInitialize ==
    /\ pc \in {"s1_call_init", "s2_call_init"}
    /\ calls' = Append(calls, <<Obj, "initialize">>)
    /\ scene' = [scene EXCEPT ![Obj].init_result = "running"]
    /\ pc' = IF pc = "s1_call_init" THEN "s1_in_init" ELSE "s2_in_init"
    /\ UNCHANGED <<device_lost, return_value, exit_code, console, glfw, gpu, run>>

\* one step of initialize() in the first lifecycle
InitStepFirst ==
    /\ pc = "s1_in_init"
    /\ \E in \in InitInputs :
         /\ SceneInitStep(FirstScene, in.out, in.k, in.j, in.ext, in.nimg)
         /\ IF in.out = "ok"
            THEN /\ pc' = IF scene[FirstScene].step + 1 = NumSteps
                          THEN "s1_call_run" ELSE pc
                 /\ UNCHANGED <<device_lost, return_value, console>>
            ELSE ThrowFirst(in.out)
    /\ UNCHANGED <<exit_code, calls, run>>

\* one step of initialize() in the re-initialization
InitStepReinit ==
    /\ pc = "s2_in_init"
    /\ \E in \in InitInputs :
         /\ SceneInitStep(ReinitScene, in.out, in.k, in.j, in.ext, in.nimg)
         /\ IF in.out = "ok"
            THEN /\ IF scene[ReinitScene].step + 1 = NumSteps
                    THEN /\ pc' = "s2_call_shutdown"
                         /\ console' = console \cup {"re-initialization successful"}
                    ELSE UNCHANGED <<pc, console>>
                 /\ UNCHANGED return_value
            ELSE /\ return_value' = CatchReinit(in.out)
                 /\ console' = console \cup {"Error Occurred"}
                 /\ pc' = "s2_call_shutdown"
    /\ UNCHANGED <<device_lost, exit_code, calls, run>>

\* scene.run() is entered (line 569)
CallRun ==
    /\ pc = "s1_call_run"
    /\ calls' = Append(calls, <<FirstScene, "run">>)
    /\ scene' = [scene EXCEPT ![FirstScene].run_result = "running"]
    /\ run' = [run EXCEPT !.pc = "poll"]
    /\ pc' = "s1_in_run"
    /\ UNCHANGED <<device_lost, return_value, exit_code, console, glfw, gpu>>

\* scene.shutdown() (lines 581, 598); an exception that escapes it is not caught
CallShutdown ==
    /\ pc \in {"s1_call_shutdown", "s2_call_shutdown"}
    /\ \E w \in {"skip", "ok", "fail"}, v \in Indet..glfw.next :
         /\ SceneShutdown(Obj, w, v)
         /\ pc' = IF ShutdownEscapes(w) THEN "aborted"
                  ELSE IF pc = "s1_call_shutdown" THEN "s1_scope_end" ELSE "s2_return"
    /\ calls' = Append(calls, <<Obj, "shutdown">>)
    /\ UNCHANGED <<device_lost, return_value, exit_code, console, gpu, run>>

\* lines 582-587: return, or leave the block and construct the second Scene;
\* either way the first Scene is destroyed
ScopeEnd ==
    /\ pc = "s1_scope_end"
    /\ IF ~device_lost
       THEN /\ scene' = [scene EXCEPT ![FirstScene] = SceneDestroyed(@)]
            /\ exit_code' = return_value
            /\ pc' = "exited"
       ELSE /\ scene' = [[scene EXCEPT ![FirstScene] = SceneDestroyed(@)]
                            EXCEPT ![ReinitScene] = FreshScene]
            /\ pc' = "s2_call_init"
            /\ UNCHANGED exit_code
    \* the device goes with the Scene that owned it
    /\ gpu' = [gpu EXCEPT !.queue = <<>>]
    /\ UNCHANGED <<device_lost, return_value, console, calls, glfw, run>>

\* lines 599-600: pause, return; the second Scene is destroyed
Return ==
    /\ pc = "s2_return"
    /\ scene' = [scene EXCEPT ![ReinitScene] = SceneDestroyed(@)]
    /\ exit_code' = return_value
    /\ pc' = "exited"
    /\ UNCHANGED <<device_lost, return_value, console, calls, glfw, gpu, run>>

----------------------------------------------------------------------------
(* Scene::run() and the device *)

S1 == scene[FirstScene]

\* what operator[] of a vector of len handles yields at idx: the element, or,
\* out of range, whatever the memory behind the vector holds
Deref(len, idx) == IF idx < len THEN {idx} ELSE (0..(len - 1)) \cup {Invalid}

\* run() ends with an exception
RunThrows(exc) ==
    /\ scene' = [scene EXCEPT ![FirstScene].run_result = exc]
    /\ run' = [run EXCEPT !.pc = "none"]
    /\ ThrowFirst(exc)

\* lines 158-160: poll events, leave the loop when the window is to close
RunPoll ==
    /\ pc = "s1_in_run" /\ run.pc = "poll"
    /\ \E close \in BOOLEAN :
         /\ ~close => run.frames < MaxFrames
         /\ IF close
            THEN /\ scene' = [scene EXCEPT ![FirstScene].run_result = "returned"]
                 /\ run' = [run EXCEPT !.pc = "none"]
                 /\ pc' = "s1_call_shutdown"
            ELSE /\ run' = [run EXCEPT !.pc = "acquire"]
                 /\ UNCHANGED <<scene, pc>>
    /\ UNCHANGED <<device_lost, return_value, exit_code, console, calls, glfw, gpu>>

\* line 162: acquireNextImageKHR with the image-available semaphore, no timeout
RunAcquire ==
    /\ pc = "s1_in_run" /\ run.pc = "acquire"
    /\ \/ /\ gpu.lost
          /\ RunThrows("device_lost")
          /\ UNCHANGED gpu
       \/ /\ ~gpu.lost
          \* the surface changed: OutOfDateKHRError
          /\ RunThrows("error")
          /\ UNCHANGED gpu
       \/ /\ ~gpu.lost
          /\ \E i \in 0..(S1.n["swapchain_imgs"] - 1) :
               /\ gpu.img[i] = "free"
               /\ \E f \in Deref(S1.n["fences"], i), c \in Deref(S1.n["command_buffers"], i) :
                    run' = [run EXCEPT !.pc = "wait", !.image_index = i,
                                       !.fence_h = f, !.cmd_h = c,
                                       !.frames = run.frames + 1]
               /\ gpu' = [gpu EXCEPT !.img[i] = "acquired", !.draw = TRUE]
          /\ UNCHANGED <<scene, pc, device_lost, return_value, console>>
    /\ UNCHANGED <<exit_code, calls, glfw>>

\* line 164: waitForFences on the image's fence, no timeout
RunWaitFence ==
    /\ pc = "s1_in_run" /\ run.pc = "wait"
    /\ IF run.fence_h = Invalid
       THEN /\ pc' = "crashed"
            /\ UNCHANGED <<scene, run, device_lost, return_value, console>>
       ELSE \/ /\ gpu.lost
               /\ RunThrows("device_lost")
            \/ /\ ~gpu.lost
               /\ gpu.fence[run.fence_h]
               /\ run' = [run EXCEPT !.pc = "reset"]
               /\ UNCHANGED <<scene, pc, device_lost, return_value, console>>
    /\ UNCHANGED <<exit_code, calls, glfw, gpu>>

\* line 165: resetFences
RunResetFence ==
    /\ pc = "s1_in_run" /\ run.pc = "reset"
    /\ gpu' = [gpu EXCEPT !.fence[run.fence_h] = FALSE]
    /\ run' = [run EXCEPT !.pc = "record"]
    /\ UNCHANGED <<pc, device_lost, return_value, exit_code, console, calls, scene, glfw>>

\* line 167: buildCommandBuffer(image_index) re-records the command buffer
RunRecord ==
    /\ pc = "s1_in_run" /\ run.pc = "record"
    /\ IF run.cmd_h = Invalid
       THEN pc' = "crashed" /\ UNCHANGED run
       ELSE run' = [run EXCEPT !.pc = "submit"] /\ UNCHANGED pc
    /\ UNCHANGED <<device_lost, return_value, exit_code, console, calls, scene, glfw, gpu>>

\* line 181: submit, waiting on image-available, signaling render-complete and the fence
RunSubmit ==
    /\ pc = "s1_in_run" /\ run.pc = "submit"
    /\ IF gpu.lost
       THEN RunThrows("device_lost") /\ UNCHANGED gpu
       ELSE /\ gpu' = [gpu EXCEPT !.queue = Append(@,
                         [op |-> "submit", frame |-> run.frames, img |-> run.image_index,
                          cmd |-> run.cmd_h, fence |-> run.fence_h])]
            /\ run' = [run EXCEPT !.pc = "present"]
            /\ UNCHANGED <<scene, pc, device_lost, return_value, console>>
    /\ UNCHANGED <<exit_code, calls, glfw>>

\* line 190: presentKHR, waiting on render-complete
RunPresent ==
    /\ pc = "s1_in_run" /\ run.pc = "present"
    /\ IF gpu.lost
       THEN RunThrows("device_lost") /\ UNCHANGED gpu
       ELSE /\ gpu' = [gpu EXCEPT
                         !.queue = Append(@,
                            [op |-> "present", frame |-> run.frames, img |-> run.image_index,
                             cmd |-> run.cmd_h, fence |-> run.fence_h]),
                         !.img[run.image_index] = "queued"]
            /\ run' = [run EXCEPT !.pc = "poll"]
            /\ UNCHANGED <<scene, pc, device_lost, return_value, console>>
    /\ UNCHANGED <<exit_code, calls, glfw>>

\* the device executes the submission at the head of its queue
GpuExecute ==
    /\ ~gpu.lost /\ gpu.queue # <<>>
    /\ Head(gpu.queue).op = "submit"
    /\ gpu.draw
    /\ gpu' = [gpu EXCEPT !.queue = Tail(@), !.draw = FALSE, !.present = TRUE,
                          !.fence[Head(gpu.queue).fence] = TRUE]
    /\ UNCHANGED <<pc, device_lost, return_value, exit_code, console, calls, scene, glfw, run>>

\* the presentation engine shows the image at the head of the queue (FIFO) and
\* releases the one shown before
GpuPresent ==
    /\ ~gpu.lost /\ gpu.queue # <<>>
    /\ Head(gpu.queue).op = "present"
    /\ gpu.present
    /\ gpu' = [gpu EXCEPT !.queue = Tail(@), !.present = FALSE,
                          !.img = [i \in DOMAIN gpu.img |->
                                     IF i = Head(gpu.queue).img THEN "shown"
                                     ELSE IF gpu.img[i] = "shown" THEN "free"
                                     ELSE gpu.img[i]]]
    /\ UNCHANGED <<pc, device_lost, return_value, exit_code, console, calls, scene, glfw, run>>

\* the shader of a submission never ends and the driver resets the device
GpuDeviceLost ==
    /\ ~gpu.lost /\ gpu.queue # <<>>
    /\ Head(gpu.queue).op = "submit"
    /\ gpu' = [gpu EXCEPT !.lost = TRUE]
    /\ UNCHANGED <<pc, device_lost, return_value, exit_code, console, calls, scene, glfw, run>>

----------------------------------------------------------------------------
(* A client of Scene other than main(): one object, initialize() at most    *)
(* once, then shutdown() any number of times, then destruction              *)

\* the client enters initialize(), or initialize() takes its next step
ClientInitialize ==
    /\ pc = "client"
    /\ S1.life = "alive" /\ S1.shutdowns = 0
    /\ S1.init_result \in {"none", "running"}
    /\ \E in \in InitInputs :
         SceneInitStep(FirstScene, in.out, in.k, in.j, in.ext, in.nimg)
    /\ calls' = IF S1.init_result = "none"
                THEN Append(calls, <<FirstScene, "initialize">>) ELSE calls
    /\ UNCHANGED <<pc, device_lost, return_value, exit_code, console, run>>

\* the client calls shutdown(), whatever state the Scene is in
ClientShutdown ==
    /\ pc = "client"
    /\ S1.life = "alive" /\ S1.shutdowns < MaxShutdownCalls
    /\ S1.init_result # "running"
    /\ \E w \in {"skip", "ok", "fail"}, v \in Indet..glfw.next :
         SceneShutdown(FirstScene, w, v)
    /\ calls' = Append(calls, <<FirstScene, "shutdown">>)
    /\ UNCHANGED <<pc, device_lost, return_value, exit_code, console, gpu, run>>

\* the Scene goes out of scope
ClientDestroy ==
    /\ pc = "client"
    /\ S1.life = "alive" /\ S1.init_result # "running"
    /\ scene' = [scene EXCEPT ![FirstScene] = SceneDestroyed(@)]
    /\ UNCHANGED <<pc, device_lost, return_value, exit_code, console, calls, glfw, gpu, run>>

----------------------------------------------------------------------------
(* Specifications *)

InitCommon ==
    /\ device_lost = FALSE
    /\ return_value = 0
    /\ exit_code = -1
    /\ console = {}
    /\ calls = <<>>
    /\ scene = [o \in Objects |-> IF o = FirstScene THEN FreshScene ELSE NoScene]
    /\ glfw = [inited |-> FALSE, windows |-> {}, next |-> 1, destroy_args |-> <<>>]
    /\ gpu = FreshGpu
    /\ run = [pc |-> "none", image_index |-> 0, fence_h |-> 0, cmd_h |-> 0, frames |-> 0]

\* main() after lines 562-565
Init == pc = "s1_call_init" /\ InitCommon

Next ==
    \/ CallInitialize
    \/ InitStepFirst
    \/ InitStepReinit
    \/ CallRun
    \/ RunPoll
    \/ RunAcquire
    \/ RunWaitFence
    \/ RunResetFence
    \/ RunRecord
    \/ RunSubmit
    \/ RunPresent
    \/ GpuExecute
    \/ GpuPresent
    \/ GpuDeviceLost
    \/ CallShutdown
    \/ ScopeEnd
    \/ Return

Spec == Init /\ [][Next]_vars

\* the host thread is the program's only thread and keeps running: the calls
\* main() makes between a device loss and the re-initialization are taken
LiveSpec == Spec /\ WF_vars(CallShutdown) /\ WF_vars(ScopeEnd) /\ WF_vars(CallInitialize)

ClientInit == pc = "client" /\ InitCommon

ClientNext ==
    \/ ClientInitialize
    \/ ClientShutdown
    \/ ClientDestroy

ClientSpec == ClientInit /\ [][ClientNext]_vars

----------------------------------------------------------------------------
(* Properties *)

IsPrefix(s, t) == Len(s) <= Len(t) /\ s = SubSeq(t, 1, Len(s))

Called(o, m) == \E i \in 1..Len(calls) : calls[i] = <<o, m>>

CalledOn(o) == \E i \in 1..Len(calls) : calls[i][1] = o

\* the first Scene's run() was entered and device loss was flagged: since
\* initialize() had returned, it is run() that raised it
RunLost == device_lost /\ Called(1, "run")

FullProtocol ==
    << <<1, "initialize">>, <<1, "run">>, <<1, "shutdown">>,
       <<2, "initialize">>, <<2, "shutdown">> >>

\* C1: when the first Scene's run() raises device loss, the calls main() makes
\* are, in this order, initialize, run and one shutdown on the first Scene,
\* then initialize and shutdown (never run) on a second object; when the
\* second initialize() is entered the first Scene has been shut down once and
\* destroyed, and the second object is in the default-constructed state, with
\* a window handle of its own afterwards.
C1_ShutdownOnceThenFreshScene ==
    RunLost =>
      /\ IsPrefix(calls, FullProtocol)
      /\ pc = "exited" => calls = FullProtocol
      /\ pc = "s2_call_init" => scene[2] = FreshScene
      /\ CalledOn(2) =>
            /\ scene[1].shutdowns = 1
            /\ scene[1].life = "dead"
            /\ scene[2].m_window > Null => scene[2].m_window # scene[1].m_window

C1_Witness ==
    /\ RunLost
    /\ pc = "exited"
    /\ calls = FullProtocol
    /\ scene[2].init_result = "ok"

\* C2: at the end of main(), a first lifecycle ended by window close gives
\* exit code 0 and no second Scene; a non-device-loss error in the first
\* lifecycle gives exit code 1 and no second Scene; device loss followed by a
\* successful second initialize() reports the re-initialization and gives 0;
\* device loss followed by a setup error of the second initialize() gives 1.
C2_ExitCode ==
    pc = "exited" =>
      /\ scene[1].run_result = "returned" => exit_code = 0 /\ ~CalledOn(2)
      /\ (scene[1].init_result = "error" \/ scene[1].run_result = "error")
            => exit_code = 1 /\ ~CalledOn(2)
      /\ (device_lost /\ scene[2].init_result = "ok")
            => exit_code = 0 /\ "re-initialization successful" \in console
      /\ (device_lost /\ scene[2].init_result = "error") => exit_code = 1

C2_Witness ==
    /\ pc = "exited"
    /\ device_lost
    /\ scene[2].init_result = "error"
    /\ exit_code = 1

\* C3 as stated: the flag is set, and a second Scene initialized, only when
\* the first Scene's run() raised device loss; no failure of the first
\* initialize() sets the flag.
C3_OnlyRunSetsFlag ==
    /\ device_lost => scene[1].run_result = "device_lost"
    /\ CalledOn(2) => scene[1].run_result = "device_lost"
    /\ scene[1].init_result \in {"error", "device_lost"} => ~device_lost

\* C3 amended: device loss is caught around initialize() and run() alike; the
\* flag is set, and a second Scene initialized, exactly when initialize() or
\* run() of the first Scene raised device loss; any other failure of the
\* first lifecycle leaves the flag clear and no second Scene is initialized.
C3_FirstLifecycleLossSetsFlag ==
    /\ device_lost <=> (scene[1].init_result = "device_lost"
                          \/ scene[1].run_result = "device_lost")
    /\ CalledOn(2) => device_lost
    /\ (scene[1].init_result = "error" \/ scene[1].run_result = "error")
          => ~device_lost /\ ~CalledOn(2)

C3_Witness ==
    /\ scene[1].init_result = "device_lost"
    /\ ~Called(1, "run")
    /\ Called(2, "initialize")

\* C4: shutdown() never throws, every handle it passes to window destruction
\* is a window that was created, and no handle is passed twice.
C4_ShutdownIdempotent ==
    /\ pc # "aborted"
    /\ \A i \in 1..Len(glfw.destroy_args) :
          /\ glfw.destroy_args[i] \in 1..(glfw.next - 1)
          /\ \A k \in 1..Len(glfw.destroy_args) :
                k # i => glfw.destroy_args[k] # glfw.destroy_args[i]

\* C5: after initialize() has succeeded the Scene holds 2 swap-chain images,
\* 2 image views, 2 fences, 2 command buffers and 2 framebuffers, and every
\* image index run() acquires is below 2.
C5_CountsEqualImageCount ==
    /\ \A o \in Objects :
          (scene[o].life = "alive" /\ scene[o].init_result = "ok") =>
             \A x \in {"swapchain_imgs", "image_views", "fences",
                       "command_buffers", "framebuffers"} :
                scene[o].n[x] = m_sw_num_images
    /\ (pc = "s1_in_run" /\ run.pc \in {"wait", "reset", "record", "submit", "present"})
          => run.image_index < m_sw_num_images

\* C6 as stated: when the surface's extent differs from the requested size,
\* initialize() has failed and the Scene holds neither a device nor a swap chain.
C6_FailsBeforeDeviceAndSwapchain ==
    \A o \in Objects :
       (scene[o].life = "alive" /\ scene[o].surf_extent # <<>>
          /\ scene[o].surf_extent # <<m_width, m_height>>) =>
             /\ scene[o].init_result = "error"
             /\ scene[o].n["device"] = 0
             /\ scene[o].n["swapchain"] = 0

\* C6 amended: when the surface's extent differs from the requested size,
\* initialize() fails in createSwapChainAndImages, before the swap chain is
\* created; the logical device has been created by then.
C6_FailsBeforeSwapchain ==
    \A o \in Objects :
       (scene[o].life = "alive" /\ scene[o].surf_extent # <<>>
          /\ scene[o].surf_extent # <<m_width, m_height>>) =>
             /\ scene[o].init_result = "error"
             /\ scene[o].step = 5
             /\ scene[o].n["swapchain"] = 0
             /\ scene[o].n["swapchain_imgs"] = 0
             /\ scene[o].n["device"] = 1

C6_Witness ==
    \E o \in Objects :
       /\ scene[o].life = "alive"
       /\ scene[o].surf_extent = <<m_width, 600>>
       /\ scene[o].init_result = "error"
       /\ scene[o].n["device"] = 1

WaitFailureStaysInside ==
    /\ \A o \in Objects :
          scene[o].waitIdle_failed =>
             /\ pc # "aborted"
             /\ scene[o].m_window \notin glfw.windows
             /\ scene[o].m_window > Null =>
                   \E i \in 1..Len(glfw.destroy_args) :
                      glfw.destroy_args[i] = scene[o].m_window
    /\ (RunLost /\ pc \in {"exited", "aborted", "crashed"}) => Called(2, "initialize")
    /\ (RunLost /\ pc \notin {"s1_in_run", "s1_call_shutdown"}) => scene[1].waitIdle_failed

\* C7: a failed wait for the device in shutdown() does not leave shutdown():
\* the window is released (its handle was passed to window destruction) and
\* main() goes on; and once run() has raised device loss, the wait in
\* shutdown() fails and main() reaches the second Scene's initialize().
C7_WaitFailureSwallowed ==
    /\ []WaitFailureStaysInside
    /\ RunLost ~> Called(2, "initialize")

C7_Witness ==
    /\ RunLost
    /\ scene[1].waitIdle_failed
    /\ pc = "s2_in_init"
    /\ scene[2].step > 0

\* C8: a Scene that has been torn down destroyed its handles in exactly the
\* reverse of the order in which it created them.
C8_ReverseCreationOrder ==
    \A o \in Objects :
       scene[o].life = "dead" => scene[o].destroyed = Reverse(scene[o].created)

PendingSubmits == {i \in 1..Len(gpu.queue) : gpu.queue[i].op = "submit"}

PendingPresents == {i \in 1..Len(gpu.queue) : gpu.queue[i].op = "present"}

\* C9: when run() re-records or submits the command buffer of the acquired
\* image, no earlier submission for that image slot, and none of that command
\* buffer, is still pending on the device; the fence handed to the submission
\* is unsignaled and no pending submission signals it; the wait of the first
\* frame finds its fence signaled.
C9_FenceGuardsSlot ==
    pc = "s1_in_run" =>
      /\ run.pc \in {"record", "submit"} =>
            \A i \in PendingSubmits :
               /\ gpu.queue[i].img # run.image_index
               /\ gpu.queue[i].cmd # run.cmd_h
      /\ run.pc = "submit" =>
            /\ ~gpu.fence[run.fence_h]
            /\ \A i \in PendingSubmits : gpu.queue[i].fence # run.fence_h
      /\ (run.pc = "wait" /\ run.frames = 1 /\ run.fence_h # Invalid)
            => gpu.fence[run.fence_h]

\* C10: when the image-available semaphore has just been passed to image
\* acquisition no submission is still to wait on it, and when a submission
\* has just been set to signal the render-complete semaphore no present is
\* still to wait on it.
C10_SemaphoresIdleWhenReused ==
    pc = "s1_in_run" =>
      /\ run.pc = "wait" => PendingSubmits = {}
      /\ run.pc = "present" => PendingPresents = {}

====
